---- MODULE Spec2Model ----
(***************************************************************************)
(* rebx_radiation_forces (src/src/radiation_forces.c): the radiation       *)
(* reaction accumulated onto the source particle's acceleration,           *)
(* Burns, Lamy & Soter (1979) eq. (5).                                     *)
(*                                                                         *)
(* Arithmetic.  A C double is modelled as an extended rational [n, d]:     *)
(*   d > 0          the finite value n/d, in lowest terms                  *)
(*   d = 0, n = 1   +Inf        d = 0, n = -1   -Inf                       *)
(*   d = 0, n = 0   NaN                                                    *)
(* with the IEEE-754 rules for the special values.  Rounding is not        *)
(* modelled: finite results are exact, and the inputs are restricted to    *)
(* those on which sqrt is exact.  Every divisor of the kernel is dr, dr*dr *)
(* or c, none of which can be a negative zero, so the sign of zero is not  *)
(* modelled either.                                                        *)
(***************************************************************************)
EXTENDS Integers, Sequences, FiniteSets, TLC

VARIABLES
    particles,      \* sim->particles: index -> particle (with its RAD_BETA parameter)
    N,              \* sim->N
    N_var,          \* sim->N_var
    G,              \* sim->G
    c,              \* params->c
    source_index,   \* params->source_index
    pc,             \* position of the serial call: "idle", "loop", "done"
    i,              \* the loop counter
    source,         \* const struct reb_particle source (the copy of line 36)
    mu,             \* const double mu
    N_real,         \* const int _N_real
    pre,            \* history: sim->particles when the running call was entered
    calls,          \* history: number of calls entered so far
    first,          \* history: the simulation and parameters as constructed
    todo,           \* parallel loop: iterations not yet handed to a thread
    th              \* parallel loop: thread -> [pc, i, tmp]

simvars == <<N, N_var, G, c, source_index>>
locals == <<source, mu, N_real>>
vars == <<particles, N, N_var, G, c, source_index, pc, i, source, mu, N_real,
          pre, calls, first, todo, th>>

----------------------------------------------------------------------------
(* Bounds of the model *)

MaxN == 3
MaxNVar == 1
MaxCalls == 2
NThreads == 2

----------------------------------------------------------------------------
(* Extended rationals *)

Abs(a) == IF a < 0 THEN -a ELSE a

RECURSIVE GCD(_, _)
GCD(a, b) == IF b = 0 THEN a ELSE GCD(b, a % b)

Q(n, d) == LET g == GCD(Abs(n), d) IN [n |-> n \div g, d |-> d \div g]

R(k) == [n |-> k, d |-> 1]
NaN == [n |-> 0, d |-> 0]
PInf == [n |-> 1, d |-> 0]
NInf == [n |-> -1, d |-> 0]

IsNaN(a) == a.d = 0 /\ a.n = 0
IsInf(a) == a.d = 0 /\ a.n # 0
IsFinite(a) == a.d > 0
IsZero(a) == a.d > 0 /\ a.n = 0
Sign(a) == IF a.n > 0 THEN 1 ELSE IF a.n < 0 THEN -1 ELSE 0
SInf(s) == IF s > 0 THEN PInf ELSE NInf

Neg(a) == [n |-> -a.n, d |-> a.d]

Add(a, b) ==
    IF IsNaN(a) \/ IsNaN(b) THEN NaN
    ELSE IF IsInf(a) THEN (IF IsInf(b) /\ b.n # a.n THEN NaN ELSE a)
    ELSE IF IsInf(b) THEN b
    ELSE LET l == (a.d \div GCD(a.d, b.d)) * b.d
         IN  Q(a.n * (l \div a.d) + b.n * (l \div b.d), l)

Sub(a, b) == Add(a, Neg(b))

Mul(a, b) ==
    IF IsNaN(a) \/ IsNaN(b) THEN NaN
    ELSE IF IsInf(a) \/ IsInf(b)
         THEN (IF IsZero(a) \/ IsZero(b) THEN NaN ELSE SInf(Sign(a) * Sign(b)))
    ELSE LET g1 == GCD(Abs(a.n), b.d)
             g2 == GCD(Abs(b.n), a.d)
         IN  [n |-> (a.n \div g1) * (b.n \div g2), d |-> (a.d \div g2) * (b.d \div g1)]

Div(a, b) ==
    IF IsNaN(a) \/ IsNaN(b) THEN NaN
    ELSE IF IsInf(a)
         THEN (IF IsInf(b) THEN NaN
               ELSE SInf(Sign(a) * (IF Sign(b) < 0 THEN -1 ELSE 1)))
    ELSE IF IsInf(b) THEN R(0)
    ELSE IF IsZero(b) THEN (IF IsZero(a) THEN NaN ELSE SInf(Sign(a)))
    ELSE Mul(a, IF b.n > 0 THEN [n |-> b.d, d |-> b.n]
                           ELSE [n |-> -b.d, d |-> -b.n])

Less(a, b) ==
    /\ ~IsNaN(a) /\ ~IsNaN(b)
    /\ IF IsInf(a) \/ IsInf(b)
       THEN (a = NInf /\ b # NInf) \/ (b = PInf /\ a # PInf)
       ELSE a.n * b.d < b.n * a.d

IsSquare(k) == \E r \in 0..k : r * r = k
ISqrt(k) == CHOOSE r \in 0..k : r * r = k

Sqrt(a) ==
    IF IsNaN(a) \/ a = NInf THEN NaN
    ELSE IF a = PInf THEN PInf
    ELSE IF a.n < 0 THEN NaN
    ELSE [n |-> ISqrt(a.n), d |-> ISqrt(a.d)]

----------------------------------------------------------------------------
(* Inputs: the particles a simulation may hold *)

Vec(a, b, d) == <<R(a), R(b), R(d)>>

Unset == [set |-> FALSE, v |-> R(1)]   \* rebx_search_param returns NULL
Beta(n, d) == [set |-> TRUE, v |-> Q(n, d)]

Body(pos, vel, mass, acc, beta) ==
    [x |-> pos[1], y |-> pos[2], z |-> pos[3],
     vx |-> vel[1], vy |-> vel[2], vz |-> vel[3],
     m |-> R(mass),
     ax |-> acc[1], ay |-> acc[2], az |-> acc[3],
     beta |-> beta]

Star == Body(Vec(0, 0, 0), Vec(0, 0, 0), 1, Vec(0, 0, 0), Unset)
Dust == Body(Vec(1, 0, 0), Vec(0, 0, 0), 1, Vec(0, 0, 0), Beta(1, 100))
Receding == Body(Vec(1, 2, 2), Vec(1, -1, 2), 1, Vec(1, 0, -1), Beta(1, 2))
Approaching == Body(Vec(1, 2, 2), Vec(-1, 1, -2), 1, Vec(0, 0, 0), Beta(1, 2))
Comet == Body(Vec(0, 0, 0), Vec(1, -1, 2), 3, Vec(0, 2, 0), Beta(3, 1))

Bodies == {Star, Dust, Receding, Approaching, Comet}

\* the units of a simulation: <<G, c>>
Units == {<<R(1), R(10)>>, <<R(2), R(2)>>}

\* The squared distance of two particles, and the inputs on which sqrt is exact
Dist2(p, s) ==
    LET dx == Sub(p.x, s.x)
        dy == Sub(p.y, s.y)
        dz == Sub(p.z, s.z)
    IN  Add(Add(Mul(dx, dx), Mul(dy, dy)), Mul(dz, dz))

ExactRoots(ps, src) ==
    \A j \in DOMAIN ps : LET q == Dist2(ps[j], ps[src])
                         IN  IsSquare(q.n) /\ IsSquare(q.d)

----------------------------------------------------------------------------
(* The kernel, src/src/radiation_forces.c *)

\* the loop bound with the variational particles left in
LoopBoundAll(n, nvar) == n

\* line 39: const int _N_real = sim->N - sim->N_var;
LoopBound(n, nvar) == n - nvar

\* the self-interaction test dropped
NeverSource(idx, src) == FALSE

\* line 42: if(i == source_index) continue;
IsSource(idx, src) == idx = src

\* the NULL test dropped
HasBetaAlways(p) == TRUE

\* lines 46-47: betaPtr = rebx_search_param(&p, RAD_BETA); betaPtr != NULL
HasBeta(p) == p.beta.set

\* the factor with the sign of the Doppler term flipped
RadialFactorPlus(rdot, cc) == Add(R(1), Div(rdot, cc))

\* the factor (1.-rdot/c) of lines 61-63
RadialFactor(rdot, cc) == Sub(R(1), Div(rdot, cc))

\* line 56: rdot = (dx*dvx + dy*dvy + dz*dvz)/dr
RadialVelocity(p, s) ==
    LET dx == Sub(p.x, s.x)
        dy == Sub(p.y, s.y)
        dz == Sub(p.z, s.z)
        dr == Sqrt(Add(Add(Mul(dx, dx), Mul(dy, dy)), Mul(dz, dz)))
        dvx == Sub(p.vx, s.vx)
        dvy == Sub(p.vy, s.vy)
        dvz == Sub(p.vz, s.vz)
    IN  Div(Add(Add(Mul(dx, dvx), Mul(dy, dvy)), Mul(dz, dvz)), dr)

\* the separation vector left unnormalised (dx for dx/dr)
ContributionNoUnit(p, s, m, cc) ==
    LET dx == Sub(p.x, s.x)
        dy == Sub(p.y, s.y)
        dz == Sub(p.z, s.z)
        dr == Sqrt(Add(Add(Mul(dx, dx), Mul(dy, dy)), Mul(dz, dz)))
        dvx == Sub(p.vx, s.vx)
        dvy == Sub(p.vy, s.vy)
        dvz == Sub(p.vz, s.vz)
        rdot == RadialVelocity(p, s)
        a_rad == Div(Mul(p.beta.v, m), Mul(dr, dr))
        f == RadialFactor(rdot, cc)
    IN  <<Mul(a_rad, Sub(Mul(f, dx), Div(dvx, cc))),
          Mul(a_rad, Sub(Mul(f, dy), Div(dvy, cc))),
          Mul(a_rad, Sub(Mul(f, dz), Div(dvz, cc)))>>

\* source.ax read for source.vx in dvx: the amount follows the accumulator
ContributionReadsAcc(p, s, m, cc) ==
    LET dx == Sub(p.x, s.x)
        dy == Sub(p.y, s.y)
        dz == Sub(p.z, s.z)
        dr == Sqrt(Add(Add(Mul(dx, dx), Mul(dy, dy)), Mul(dz, dz)))
        dvx == Sub(p.vx, s.ax)
        dvy == Sub(p.vy, s.vy)
        dvz == Sub(p.vz, s.vz)
        rdot == RadialVelocity(p, s)
        a_rad == Div(Mul(p.beta.v, m), Mul(dr, dr))
        f == RadialFactor(rdot, cc)
    IN  <<Mul(a_rad, Sub(Div(Mul(f, dx), dr), Div(dvx, cc))),
          Mul(a_rad, Sub(Div(Mul(f, dy), dr), Div(dvy, cc))),
          Mul(a_rad, Sub(Div(Mul(f, dz), dr), Div(dvz, cc)))>>

\* a guard on dr == 0 that adds nothing for a coincident particle
ContributionGuarded(p, s, m, cc) ==
    LET dx == Sub(p.x, s.x)
        dy == Sub(p.y, s.y)
        dz == Sub(p.z, s.z)
        dr == Sqrt(Add(Add(Mul(dx, dx), Mul(dy, dy)), Mul(dz, dz)))
        dvx == Sub(p.vx, s.vx)
        dvy == Sub(p.vy, s.vy)
        dvz == Sub(p.vz, s.vz)
        rdot == RadialVelocity(p, s)
        a_rad == Div(Mul(p.beta.v, m), Mul(dr, dr))
        f == RadialFactor(rdot, cc)
    IN  IF IsZero(dr) THEN <<R(0), R(0), R(0)>>
        ELSE <<Mul(a_rad, Sub(Div(Mul(f, dx), dr), Div(dvx, cc))),
               Mul(a_rad, Sub(Div(Mul(f, dy), dr), Div(dvy, cc))),
               Mul(a_rad, Sub(Div(Mul(f, dz), dr), Div(dvz, cc)))>>

\* lines 48-63: the three amounts added for particle p, source copy s, mu m
Contribution(p, s, m, cc) ==
    LET dx == Sub(p.x, s.x)
        dy == Sub(p.y, s.y)
        dz == Sub(p.z, s.z)
        dr == Sqrt(Add(Add(Mul(dx, dx), Mul(dy, dy)), Mul(dz, dz)))
        dvx == Sub(p.vx, s.vx)
        dvy == Sub(p.vy, s.vy)
        dvz == Sub(p.vz, s.vz)
        rdot == RadialVelocity(p, s)
        a_rad == Div(Mul(p.beta.v, m), Mul(dr, dr))
        f == RadialFactor(rdot, cc)
    IN  <<Mul(a_rad, Sub(Div(Mul(f, dx), dr), Div(dvx, cc))),
          Mul(a_rad, Sub(Div(Mul(f, dy), dr), Div(dvy, cc))),
          Mul(a_rad, Sub(Div(Mul(f, dz), dr), Div(dvz, cc)))>>

\* `=` written for `+=`
AccumulateOverwrite(ps, src, k) ==
    [ps EXCEPT ![src].ax = k[1], ![src].ay = k[2], ![src].az = k[3]]

\* the source taken to be particles[0]
AccumulateOnFirst(ps, src, k) ==
    [ps EXCEPT ![0].ax = Add(@, k[1]),
               ![0].ay = Add(@, k[2]),
               ![0].az = Add(@, k[3])]

\* lines 61-63: particles[source_index].ax += ..., .ay += ..., .az += ...
Accumulate(ps, src, k) ==
    [ps EXCEPT ![src].ax = Add(@, k[1]),
               ![src].ay = Add(@, k[2]),
               ![src].az = Add(@, k[3])]

\* lines 42-63: one iteration of the loop
Iteration(ps, idx, s, m, cc, src) ==
    IF IsSource(idx, src) THEN ps
    ELSE IF ~HasBeta(ps[idx]) THEN ps
    ELSE Accumulate(ps, src, Contribution(ps[idx], s, m, cc))

\* lines 41-64 run serially over the indices order[from..Len(order)]
RECURSIVE Loop(_, _, _, _, _, _, _)
Loop(ps, order, from, s, m, cc, src) ==
    IF from > Len(order) THEN ps
    ELSE Loop(Iteration(ps, order[from], s, m, cc, src), order, from + 1, s, m, cc, src)

Ascending(n) == [k \in 1..n |-> k - 1]
Descending(n) == [k \in 1..n |-> n - k]

\* lines 31-65: one serial call, the loop visiting the indices in `order`
Call(ps, order, g, cc, src) ==
    Loop(ps, order, 1, ps[src], Mul(g, ps[src].m), cc, src)

\* lines 31-65: one serial call
rebx_radiation_forces(ps, n, nvar, g, cc, src) ==
    Call(ps, Ascending(LoopBound(n, nvar)), g, cc, src)

----------------------------------------------------------------------------
(* The serial program *)

Threads == 1..NThreads
Idle == [pc |-> "idle", i |-> 0, tmp |-> R(0), k |-> <<R(0), R(0), R(0)>>]

Init ==
    /\ N \in 1..MaxN
    /\ N_var \in 0..MaxNVar
    /\ N_var < N
    /\ source_index \in 0..(N - N_var - 1)
    /\ particles \in [0..(N - 1) -> Bodies]
    /\ ExactRoots(particles, source_index)
    /\ \E u \in Units : G = u[1] /\ c = u[2]
    /\ pc = "idle"
    /\ i = 0
    /\ source = particles[source_index]
    /\ mu = R(0)
    /\ N_real = 0
    /\ pre = particles
    /\ calls = 0
    /\ first = [particles |-> particles, N |-> N, N_var |-> N_var, G |-> G, c |-> c,
                source_index |-> source_index]
    /\ todo = {}
    /\ th = [t \in Threads |-> Idle]

\* lines 32-39 and the loop's initialisation
Enter ==
    /\ pc \in {"idle", "done"}
    /\ calls < MaxCalls
    /\ source' = particles[source_index]
    /\ mu' = Mul(G, particles[source_index].m)
    /\ N_real' = LoopBound(N, N_var)
    /\ i' = 0
    /\ pc' = "loop"
    /\ pre' = particles
    /\ calls' = calls + 1
    /\ UNCHANGED <<particles, simvars, first, todo, th>>

\* lines 42-44
LoopSkipSource ==
    /\ pc = "loop"
    /\ i < N_real
    /\ IsSource(i, source_index)
    /\ i' = i + 1
    /\ UNCHANGED <<particles, simvars, locals, pc, pre, calls, first, todo, th>>

\* lines 45-47
LoopSkipNoBeta ==
    /\ pc = "loop"
    /\ i < N_real
    /\ ~IsSource(i, source_index)
    /\ ~HasBeta(particles[i])
    /\ i' = i + 1
    /\ UNCHANGED <<particles, simvars, locals, pc, pre, calls, first, todo, th>>

\* lines 45-63
LoopAccumulate ==
    /\ pc = "loop"
    /\ i < N_real
    /\ ~IsSource(i, source_index)
    /\ HasBeta(particles[i])
    /\ particles' = Accumulate(particles, source_index,
                               Contribution(particles[i], source, mu, c))
    /\ i' = i + 1
    /\ UNCHANGED <<simvars, locals, pc, pre, calls, first, todo, th>>

\* line 41 (i < _N_real fails) and line 65
Return ==
    /\ pc = "loop"
    /\ i >= N_real
    /\ pc' = "done"
    /\ UNCHANGED <<particles, simvars, locals, i, pre, calls, first, todo, th>>

Next ==
    \/ Enter
    \/ LoopSkipSource
    \/ LoopSkipNoBeta
    \/ LoopAccumulate
    \/ Return

Spec == Init /\ [][Next]_vars

----------------------------------------------------------------------------
(* The loop under `#pragma omp parallel for` (line 40): the iterations are  *)
(* handed to the threads of a team in an order the schedule decides, and    *)
(* each `+=` of lines 61-63 is a load of the shared double followed by a    *)
(* store, with no reduction, atomic or critical section between them.       *)

Acc(p) == <<p.ax, p.ay, p.az>>

\* the component read by a thread at "r1", "r2", "r3" and written at "w1", "w2", "w3"
Reading == [r1 |-> 1, r2 |-> 2, r3 |-> 3]
Writing == [w1 |-> 1, w2 |-> 2, w3 |-> 3]
AfterRead == [r1 |-> "w1", r2 |-> "w2", r3 |-> "w3"]
AfterWrite == [w1 |-> "r2", w2 |-> "r3", w3 |-> "idle"]

\* every load reading .ax
LoadX(ps, src, k) == ps[src].ax

\* lines 61-63: the load of particles[source_index].ax (k = 1), .ay (2), .az (3)
Load(ps, src, k) == Acc(ps[src])[k]

\* lines 61-63: the store to particles[source_index].ax (k = 1), .ay (2), .az (3)
Store(ps, src, k, v) ==
    IF k = 1 THEN [ps EXCEPT ![src].ax = v]
    ELSE IF k = 2 THEN [ps EXCEPT ![src].ay = v]
    ELSE [ps EXCEPT ![src].az = v]

\* the simulations the parallel loop is run on, one call each: the source is
\* the first particle
ParBodies == {Star, Dust, Receding}

ParInit ==
    /\ Init
    /\ source_index = 0
    /\ \A j \in DOMAIN particles : particles[j] \in ParBodies
    /\ G = R(1)
    /\ c = R(10)

\* lines 32-39, then the team is started on the iterations 0.._N_real-1
ParEnter ==
    /\ pc = "idle"
    /\ calls = 0
    /\ source' = particles[source_index]
    /\ mu' = Mul(G, particles[source_index].m)
    /\ N_real' = LoopBound(N, N_var)
    /\ todo' = 0..(LoopBound(N, N_var) - 1)
    /\ pc' = "par"
    /\ pre' = particles
    /\ calls' = calls + 1
    /\ UNCHANGED <<particles, simvars, i, first, th>>

\* lines 42-44, thread t
ParSkipSource(t) ==
    /\ pc = "par"
    /\ th[t].pc = "idle"
    /\ \E j \in todo :
          /\ IsSource(j, source_index)
          /\ todo' = todo \ {j}
    /\ UNCHANGED <<particles, simvars, locals, pc, i, pre, calls, first, th>>

\* lines 45-47, thread t
ParSkipNoBeta(t) ==
    /\ pc = "par"
    /\ th[t].pc = "idle"
    /\ \E j \in todo :
          /\ ~IsSource(j, source_index)
          /\ ~HasBeta(particles[j])
          /\ todo' = todo \ {j}
    /\ UNCHANGED <<particles, simvars, locals, pc, i, pre, calls, first, th>>

\* lines 45-57, thread t: the private values of an iteration that accumulates
ParCompute(t) ==
    /\ pc = "par"
    /\ th[t].pc = "idle"
    /\ \E j \in todo :
          /\ ~IsSource(j, source_index)
          /\ HasBeta(particles[j])
          /\ todo' = todo \ {j}
          /\ th' = [th EXCEPT ![t] = [pc |-> "r1", i |-> j, tmp |-> R(0),
                                      k |-> Contribution(particles[j], source, mu, c)]]
    /\ UNCHANGED <<particles, simvars, locals, pc, i, pre, calls, first>>

\* lines 61-63, thread t: the load half of a `+=`
ParLoad(t) ==
    /\ pc = "par"
    /\ th[t].pc \in DOMAIN Reading
    /\ th' = [th EXCEPT ![t].tmp = Load(particles, source_index, Reading[th[t].pc]),
                        ![t].pc = AfterRead[th[t].pc]]
    /\ UNCHANGED <<particles, simvars, locals, pc, i, pre, calls, first, todo>>

\* lines 61-63, thread t: the store half of a `+=`
ParStore(t) ==
    /\ pc = "par"
    /\ th[t].pc \in DOMAIN Writing
    /\ particles' = Store(particles, source_index, Writing[th[t].pc],
                          Add(th[t].tmp, th[t].k[Writing[th[t].pc]]))
    /\ th' = [th EXCEPT ![t] = IF AfterWrite[th[t].pc] = "idle" THEN Idle
                               ELSE [@ EXCEPT !.pc = AfterWrite[th[t].pc], !.tmp = R(0)]]
    /\ UNCHANGED <<simvars, locals, pc, i, pre, calls, first, todo>>

\* the implicit barrier at the end of the parallel loop, and line 65
ParJoin ==
    /\ pc = "par"
    /\ todo = {}
    /\ \A t \in Threads : th[t].pc = "idle"
    /\ pc' = "done"
    /\ UNCHANGED <<particles, simvars, locals, i, pre, calls, first, todo, th>>

ParNext ==
    \/ ParEnter
    \/ \E t \in Threads : ParSkipSource(t)
    \/ \E t \in Threads : ParSkipNoBeta(t)
    \/ \E t \in Threads : ParCompute(t)
    \/ \E t \in Threads : ParLoad(t)
    \/ \E t \in Threads : ParStore(t)
    \/ ParJoin

ParSpec == ParInit /\ [][ParNext]_vars

----------------------------------------------------------------------------
(* What the claims speak of *)

VAdd(u, w) == <<Add(u[1], w[1]), Add(u[2], w[2]), Add(u[3], w[3])>>
Zero3 == <<R(0), R(0), R(0)>>

\* the real, non-source particles of ps that carry a beta coefficient
Tagged(ps) ==
    {j \in 0..(N - N_var - 1) : j # source_index /\ ps[j].beta.set}

\* the amount particle j of ps adds, by the formula of the kernel
Amount(ps, j) ==
    Contribution(ps[j], ps[source_index], Mul(G, ps[source_index].m), c)

RECURSIVE Total(_, _)
Total(ps, S) ==
    IF S = {} THEN Zero3
    ELSE LET j == CHOOSE k \in S : TRUE
         IN  VAdd(Amount(ps, j), Total(ps, S \ {j}))

RECURSIVE Times(_, _)
Times(k, w) == IF k = 0 THEN Zero3 ELSE VAdd(w, Times(k - 1, w))

SourceAcc == Acc(particles[source_index])
Done == pc = "done"

\* ps with exactly the particles of S keeping their beta coefficient
OnlyTagged(ps, S) ==
    [j \in DOMAIN ps |-> IF j \in S THEN ps[j] ELSE [ps[j] EXCEPT !.beta = Unset]]

\* ps with the beta coefficients of qs
Retagged(ps, qs) ==
    [j \in DOMAIN ps |-> [ps[j] EXCEPT !.beta = qs[j].beta]]

Without(order, j) == SelectSeq(order, LAMBDA k : k # j)

SamePlace(p, s) == p.x = s.x /\ p.y = s.y /\ p.z = s.z
SameVelocity(p, s) == p.vx = s.vx /\ p.vy = s.vy /\ p.vz = s.vz

----------------------------------------------------------------------------
(* C1: when a serial call has returned, the source acceleration is its   *)
(* value at entry plus the sum of the contributions of exactly the        *)
(* particles i with 0 <= i < N - N_var, i # source_index and a beta       *)
(* coefficient, each once; the amount does not depend on the acceleration *)
(* held at entry, so after k calls on otherwise unchanged particles the   *)
(* source holds its first value plus k times that amount.                 *)
C1_AccumulatesTaggedOnce ==
    Done =>
        /\ SourceAcc = VAdd(Acc(pre[source_index]), Total(pre, Tagged(pre)))
        /\ SourceAcc = VAdd(Acc(first.particles[source_index]),
                            Times(calls, Total(first.particles, Tagged(first.particles))))

C1_Witness ==
    /\ Done
    /\ calls = 2
    /\ Cardinality(Tagged(pre)) = 2
    /\ \A k \in 1..3 : IsFinite(SourceAcc[k])
    /\ SourceAcc # Acc(pre[source_index])
    /\ Acc(pre[source_index]) # Acc(first.particles[source_index])

(* C2: a call changes only ax, ay, az of particles[source_index]: every  *)
(* other field of every particle, the beta coefficients, N, N_var, G, c   *)
(* and source_index keep the values they were constructed with.           *)
C2_OnlySourceAcceleration ==
    /\ N = first.N /\ N_var = first.N_var /\ G = first.G /\ c = first.c
    /\ source_index = first.source_index
    /\ DOMAIN particles = DOMAIN first.particles
    /\ \A j \in DOMAIN particles :
          IF j = source_index
          THEN [particles[j] EXCEPT !.ax = first.particles[j].ax,
                                    !.ay = first.particles[j].ay,
                                    !.az = first.particles[j].az] = first.particles[j]
          ELSE particles[j] = first.particles[j]

C2_Witness ==
    /\ Done
    /\ source_index # 0
    /\ N_var > 0
    /\ Tagged(pre) # {}
    /\ particles[N - 1].beta.set
    /\ \A k \in 1..3 : SourceAcc[k] # Acc(pre[source_index])[k]

(* C3: a particle without a beta coefficient contributes nothing: the    *)
(* source acceleration after a call is the one obtained with that         *)
(* particle left out of the loop, and with no tagged particle at all the  *)
(* call leaves the source acceleration as it was.                         *)
C3_AbsentBetaIsSkipped ==
    Done =>
        /\ \A j \in DOMAIN pre :
              ~pre[j].beta.set =>
                  SourceAcc = Acc(Call(pre, Without(Ascending(N - N_var), j),
                                       G, c, source_index)[source_index])
        /\ (\A j \in DOMAIN pre : ~pre[j].beta.set) => SourceAcc = Acc(pre[source_index])

C3_Witness ==
    /\ Done
    /\ \E j \in 0..(N - N_var - 1) : j # source_index /\ ~pre[j].beta.set
    /\ Tagged(pre) # {}
    /\ SourceAcc # Acc(pre[source_index])

(* C4: the particle at source_index is never a contributor: whatever     *)
(* beta coefficient it carries, or none, the source acceleration after a  *)
(* call is the same.                                                      *)
C4_NoSelfInteraction ==
    Done =>
        \A b \in {Unset, Beta(2, 1)} :
            SourceAcc = Acc(rebx_radiation_forces(
                                [pre EXCEPT ![source_index].beta = b],
                                N, N_var, G, c, source_index)[source_index])

C4_Witness ==
    /\ Done
    /\ pre[source_index].beta.set
    /\ Tagged(pre) # {}
    /\ \A k \in 1..3 : IsFinite(SourceAcc[k])
    /\ SourceAcc # Acc(pre[source_index])

C7_AdditiveOrderIndependent ==
    Done =>
        /\ \A A \in SUBSET Tagged(pre) \ {{}, Tagged(pre)} :
              LET afterA == rebx_radiation_forces(OnlyTagged(pre, A),
                                                  N, N_var, G, c, source_index)
                  afterB == rebx_radiation_forces(
                                OnlyTagged(Retagged(afterA, pre), Tagged(pre) \ A),
                                N, N_var, G, c, source_index)
              IN  SourceAcc = Acc(afterB[source_index])
        /\ SourceAcc = Acc(Call(pre, Descending(N - N_var), G, c,
                                source_index)[source_index])

C7_Witness ==
    /\ Done
    /\ Cardinality(Tagged(pre)) = 2
    /\ \A j \in Tagged(pre) : \A k \in 1..3 :
          /\ IsFinite(Amount(pre, j)[k])
          /\ ~IsZero(Amount(pre, j)[k])
    /\ \E j, k \in Tagged(pre) : Amount(pre, j) # Amount(pre, k)
    /\ Acc(pre[source_index]) # Zero3

(* C8: a single tagged particle at rest relative to the source, at        *)
(* distance dr # 0, adds beta*G*M/dr^2 times (dx, dy, dz)/dr, whatever c  *)
(* is; the source at the origin at rest with M = 1, G = 1 and the         *)
(* particle at (1,0,0) at rest with beta = 0.01 adds (0.01, 0, 0).        *)
C8_AtRestIsInverseSquare ==
    Done =>
        \A j \in Tagged(pre) :
            LET p == pre[j]
                s == pre[source_index]
                dx == Sub(p.x, s.x)
                dy == Sub(p.y, s.y)
                dz == Sub(p.z, s.z)
                dr == Sqrt(Dist2(p, s))
                a == Div(Mul(Mul(p.beta.v, G), s.m), Dist2(p, s))
            IN  /\ (Tagged(pre) = {j} /\ SameVelocity(p, s) /\ ~SamePlace(p, s)) =>
                      SourceAcc = VAdd(Acc(s), <<Mul(a, Div(dx, dr)),
                                                 Mul(a, Div(dy, dr)),
                                                 Mul(a, Div(dz, dr))>>)
                /\ (Tagged(pre) = {j} /\ p = Dust /\ s = Star /\ G = R(1)) =>
                      SourceAcc = <<Q(1, 100), R(0), R(0)>>

C8_Witness ==
    /\ Done
    /\ \E j \in Tagged(pre) :
          /\ Tagged(pre) = {j}
          /\ SameVelocity(pre[j], pre[source_index])
          /\ pre[j].vx # R(0)
          /\ Dist2(pre[j], pre[source_index]) = R(9)
    /\ c = R(10)

(* C9: a tagged real particle other than the source at the source's       *)
(* position is not skipped: its contribution is non-finite in all three   *)
(* components, and from its iteration on, through every later             *)
(* contribution of the call, the source acceleration is non-finite.       *)
C9_ZeroSeparationPropagates ==
    pc \in {"loop", "done"} =>
        \A j \in Tagged(pre) :
            SamePlace(pre[j], pre[source_index]) =>
                LET a == Amount(pre, j)
                IN  /\ \A k \in 1..3 : ~IsFinite(a[k])
                    /\ (pc = "done" \/ j < i) => \A k \in 1..3 : ~IsFinite(SourceAcc[k])

C9_Witness ==
    /\ Done
    /\ calls = 1
    /\ \E j \in Tagged(pre) :
          /\ SamePlace(pre[j], pre[source_index])
          /\ \E k \in Tagged(pre) : k > j /\ ~SamePlace(pre[k], pre[source_index])
    /\ \A k \in 1..3 : IsFinite(Acc(pre[source_index])[k])
    /\ \A k \in 1..3 : IsNaN(SourceAcc[k])

(* C10: after a call, two tagged particles at the same place whose        *)
(* velocities relative to the source are opposite have radial factors     *)
(* (1 - rdot/c) that sum to 2; the receding one (rdot > 0) has a factor   *)
(* below 1 and the approaching one (rdot < 0) a factor above 1.           *)
C10_RadialFactorSymmetric ==
    Done =>
        \A j, k \in Tagged(pre) :
            LET s == pre[source_index]
                p == pre[j]
                q == pre[k]
                rp == RadialVelocity(p, s)
                rq == RadialVelocity(q, s)
            IN  (/\ SamePlace(p, q) /\ ~SamePlace(p, s)
                 /\ Sub(p.vx, s.vx) = Neg(Sub(q.vx, s.vx))
                 /\ Sub(p.vy, s.vy) = Neg(Sub(q.vy, s.vy))
                 /\ Sub(p.vz, s.vz) = Neg(Sub(q.vz, s.vz))) =>
                    /\ rq = Neg(rp)
                    /\ Add(RadialFactor(rp, c), RadialFactor(rq, c)) = R(2)
                    /\ Less(R(0), rp) => /\ Less(RadialFactor(rp, c), R(1))
                                         /\ Less(R(1), RadialFactor(rq, c))
                    /\ Less(rp, R(0)) => Less(R(1), RadialFactor(rp, c))

C10_Witness ==
    /\ Done
    /\ \E j, k \in Tagged(pre) :
          /\ pre[j] = Receding /\ pre[k] = Approaching
          /\ Less(R(0), RadialVelocity(pre[j], pre[source_index]))
          /\ Less(RadialVelocity(pre[k], pre[source_index]), R(0))
    /\ pre[source_index] = Star

(* C6: with the iterations run by two or more threads and each `+=` a    *)
(* load followed by a store, the accumulation races: when the parallel    *)
(* loop has ended, each component of the source acceleration is its value *)
(* at entry plus the contributions of some of the tagged particles, at    *)
(* least one of them but not necessarily all; an interleaving of two      *)
(* tagged particles' iterations that loses a contribution, and ends on a  *)
(* result other than the serial one, is reachable (C6_Witness).           *)
C6_RacyAccumulation ==
    Done =>
        \A k \in 1..3 :
            \E S \in SUBSET Tagged(pre) :
                /\ (Tagged(pre) # {} => S # {})
                /\ SourceAcc[k] = Add(Acc(pre[source_index])[k], Total(pre, S)[k])

C6_Witness ==
    /\ Done
    /\ calls = 1
    /\ Cardinality(Tagged(pre)) = 2
    /\ \A j \in Tagged(pre) : \A k \in 1..3 :
          IsFinite(Amount(pre, j)[k]) /\ ~IsZero(Amount(pre, j)[k])
    /\ \E j \in Tagged(pre) :
          SourceAcc = VAdd(Acc(pre[source_index]), Amount(pre, j))
    /\ SourceAcc # Acc(rebx_radiation_forces(pre, N, N_var, G, c,
                                             source_index)[source_index])

====
